---- MODULE Spec2Model ----
(***************************************************************************)
(* Model of the schedule CSP solver of src/main.py: the value types, the   *)
(* three constraint predicates, and CSP.solve / CSP.backtrack as a state   *)
(* machine with an explicit call stack.                                    *)
(***************************************************************************)
EXTENDS Integers, Sequences, FiniteSets, TLC

VARIABLES
    variables,   \* CSP.variables: the list of MustToLearn handed to CSP
    domains,     \* CSP.domains: MustToLearn -> list of Lesson
    assignment,  \* the dict shared by all invocations of backtrack
    stack,       \* active invocations of backtrack that are inside their for loop
    pc,          \* position of the run
    i,           \* the step counter threaded through backtrack
    ret,         \* what the invocation that just returned gave back
    result,      \* what solve() returned
    calls,       \* history: how many times backtrack has been invoked
    verdict      \* what a constraint predicate called on its own returned

vars == <<variables, domains, assignment, stack, pc, i, ret, result, calls, verdict>>

(* ------------------------------ bounds -------------------------------- *)

\* longest variable list handed to CSP
MaxVars == 2

\* most candidates over all the candidate lists of one instance
MaxCands == 4

\* most bindings of an assignment handed directly to a constraint predicate
MaxBindings == 2

(* ---------------------------- value types ----------------------------- *)

Group(name, students) == [name |-> name, students |-> students]

Auditorium(name, capacity) == [name |-> name, capacity |-> capacity]

MustToLearn(group, subject) == [group |-> group, subject |-> subject]

Lesson(group, subject, teacher, day, lesson_num, auditorium) ==
    [group |-> group, subject |-> subject, teacher |-> teacher, day |-> day,
     lesson_num |-> lesson_num, auditorium |-> auditorium]

Range(s) == {s[j] : j \in DOMAIN s}

SeqsUpTo(S, n) == UNION {[1..m -> S] : m \in 0..n}

(* --------------------------- catalog data ----------------------------- *)

G1 == Group("G1", 40)

G2 == Group("G2", 20)

R1 == MustToLearn(G1, "S1")

R2 == MustToLearn(G2, "S1")

R3 == MustToLearn(G1, "S2")

group_subjects_dict == {R1, R2, R3}

\* one qualified teacher per subject
subject_teachers_dict(subject) == IF subject = "S1" THEN "T1" ELSE "T2"

day == {"Monday"}

lesson_num == {1, 2}

auditorium == {Auditorium("A1", 30), Auditorium("A2", 50)}

\* X: the variable lists (a catalog that lists a subject twice repeats a variable)
X == SeqsUpTo(group_subjects_dict, MaxVars)

\* the slots a candidate of the driver is built from: (day, lesson number, room)
Slots == day \X lesson_num \X auditorium

\* one candidate as the driver builds it: the Requirement's own group and
\* subject, a teacher of the subject, and a slot
possible_value(x_comb, slot) ==
    Lesson(x_comb.group, x_comb.subject, subject_teachers_dict(x_comb.subject),
           slot[1], slot[2], slot[3])

\* the choices a candidate of an arbitrary caller is built from: (group, room)
AnySlots == {G1, G2} \X auditorium

\* one candidate of an arbitrary caller: the group need not be the Requirement's
any_value(x_comb, slot) ==
    Lesson(slot[1], x_comb.subject, subject_teachers_dict(x_comb.subject),
           "Monday", 1, slot[2])

(* ---------------------------- constraints ----------------------------- *)

\* the teacher check without its room clause
teacher_time_conflict_constraint_no_room(a) ==
    \A x \in DOMAIN a :
        ~ \E y \in DOMAIN a :
            /\ a[y] # a[x]
            /\ a[x].teacher = a[y].teacher
            /\ a[x].day = a[y].day
            /\ a[x].lesson_num = a[y].lesson_num
            /\ \/ a[x].subject # a[y].subject
               \/ a[x].group = a[y].group

teacher_time_conflict_constraint(a) ==
    \A x \in DOMAIN a :
        ~ \E y \in DOMAIN a :
            /\ a[y] # a[x]
            /\ a[x].teacher = a[y].teacher
            /\ a[x].day = a[y].day
            /\ a[x].lesson_num = a[y].lesson_num
            /\ \/ a[x].subject # a[y].subject
               \/ a[x].group = a[y].group
               \/ a[x].auditorium # a[y].auditorium

\* the group check comparing the lesson number only against another day
group_time_conflict_constraint_wrong_day(a) ==
    \A x \in DOMAIN a :
        ~ \E y \in DOMAIN a :
            /\ a[y] # a[x]
            /\ a[x].group = a[y].group
            /\ a[x].day # a[y].day
            /\ a[x].lesson_num = a[y].lesson_num

\* the group check without the "if other_lesson != lesson" filter
group_time_conflict_constraint_no_skip(a) ==
    \A x \in DOMAIN a :
        ~ \E y \in DOMAIN a :
            /\ a[x].group = a[y].group
            /\ a[x].day = a[y].day
            /\ a[x].lesson_num = a[y].lesson_num

group_time_conflict_constraint(a) ==
    \A x \in DOMAIN a :
        ~ \E y \in DOMAIN a :
            /\ a[y] # a[x]
            /\ a[x].group = a[y].group
            /\ a[x].day = a[y].day
            /\ a[x].lesson_num = a[y].lesson_num

\* the room check that lets any two lessons of one subject share a room
auditorium_time_conflict_constraint_subject_only(a) ==
    \A x \in DOMAIN a :
        ~ \E y \in DOMAIN a :
            /\ a[y] # a[x]
            /\ a[x].day = a[y].day
            /\ a[x].lesson_num = a[y].lesson_num
            /\ a[x].auditorium = a[y].auditorium
            /\ a[x].subject # a[y].subject

auditorium_time_conflict_constraint(a) ==
    \A x \in DOMAIN a :
        ~ \E y \in DOMAIN a :
            /\ a[y] # a[x]
            /\ a[x].day = a[y].day
            /\ a[x].lesson_num = a[y].lesson_num
            /\ a[x].auditorium = a[y].auditorium
            /\ \/ a[x].subject # a[y].subject
               \/ a[x].teacher # a[y].teacher

(* ------------------------------ the dict ------------------------------ *)

EmptyAssignment == [x \in {} |-> x]

\* assignment[var] = value
SetItem(a, var, value) ==
    [x \in (DOMAIN a) \cup {var} |-> IF x = var THEN value ELSE a[x]]

\* del assignment[var]
DelItem(a, var) == [x \in (DOMAIN a) \ {var} |-> a[x]]

\* None, and a value that is not None, as backtrack and solve return them
None == [none |-> TRUE, value |-> EmptyAssignment]

Some(a) == [none |-> FALSE, value |-> a]

(* ------------------------------- CSP ---------------------------------- *)

\* is_consistent without the teacher check in its list of constraints
is_consistent_no_teacher(var, value, a) ==
    LET a1 == SetItem(a, var, value)
    IN  IF /\ group_time_conflict_constraint(a1)
           /\ auditorium_time_conflict_constraint(a1)
        THEN [ok |-> TRUE, assignment |-> DelItem(a1, var)]
        ELSE [ok |-> FALSE, assignment |-> DelItem(a1, var)]

\* is_consistent returning True on the first constraint that holds
is_consistent_any(var, value, a) ==
    LET a1 == SetItem(a, var, value)
    IN  IF \/ teacher_time_conflict_constraint(a1)
           \/ group_time_conflict_constraint(a1)
           \/ auditorium_time_conflict_constraint(a1)
        THEN [ok |-> TRUE, assignment |-> DelItem(a1, var)]
        ELSE [ok |-> FALSE, assignment |-> DelItem(a1, var)]

\* is_consistent without the del on its failure path
is_consistent_leak(var, value, a) ==
    LET a1 == SetItem(a, var, value)
    IN  IF /\ teacher_time_conflict_constraint(a1)
           /\ group_time_conflict_constraint(a1)
           /\ auditorium_time_conflict_constraint(a1)
        THEN [ok |-> TRUE, assignment |-> DelItem(a1, var)]
        ELSE [ok |-> FALSE, assignment |-> a1]

\* is_consistent: the verdict, and the shared dict as the call leaves it
is_consistent(var, value, a) ==
    LET a1 == SetItem(a, var, value)
    IN  IF /\ teacher_time_conflict_constraint(a1)
           /\ group_time_conflict_constraint(a1)
           /\ auditorium_time_conflict_constraint(a1)
        THEN [ok |-> TRUE, assignment |-> DelItem(a1, var)]
        ELSE [ok |-> FALSE, assignment |-> DelItem(a1, var)]

\* the list comprehension of select_unassigned_variable
unassigned(a) ==
    LET free(v) == v \notin DOMAIN a
    IN  SelectSeq(variables, free)

\* select_unassigned_variable without the key: the first unassigned variable
select_unassigned_variable_first(a) == unassigned(a)[1]

\* min(u, key=len(domains[var])) from element j on, best being the least so
\* far: a later element replaces it only when its key is strictly smaller
RECURSIVE min_by_len(_, _, _)
min_by_len(u, j, best) ==
    IF j > Len(u)
    THEN best
    ELSE min_by_len(u, j + 1,
                    IF Len(domains[u[j]]) < Len(domains[best]) THEN u[j] ELSE best)

\* min(unassigned, key=len(domains[var]))
select_unassigned_variable(a) ==
    LET u == unassigned(a)
    IN  min_by_len(u, 2, u[1])

\* the completeness test off by one
is_complete_off_by_one(a) == Cardinality(DOMAIN a) = Len(variables) + 1

\* len(assignment) == len(csp.variables)
is_complete(a) == Cardinality(DOMAIN a) = Len(variables)

\* the step counter bumped only after the completeness test
step_after_test(n, complete) == IF complete THEN n ELSE n + 1

\* i += 1 on entry to backtrack, whether or not the assignment is complete
step(n, complete) == n + 1

\* the for loop walking the candidate list from its end
candidate_reversed(var, k) == domains[var][Len(domains[var]) - k + 1]

\* the k-th value of "for value in self.domains[var]"
candidate(var, k) == domains[var][k]

\* the frame of an invocation inside its for loop: the variable it selected,
\* the index of the candidate the loop is at, and the dict as it was on entry
Frame(var, k, entry) == [var |-> var, k |-> k, entry |-> entry]

Top == stack[Len(stack)]

Pop == SubSeq(stack, 1, Len(stack) - 1)

\* the lists of at most budget choices from slots that variable x_comb may get:
\* only the variables of the list have a candidate list, and a candidate list
\* holds no candidate twice (it is cut from a cross product)
Choices(x_comb, budget, slots) ==
    IF x_comb \in Range(variables)
    THEN {opts \in SeqsUpTo(slots, budget) :
             \A j, m \in DOMAIN opts : opts[j] = opts[m] => j = m}
    ELSE {<<>>}

\* D[x_comb] = possible_values: each candidate built from one slot
D(choice) ==
    [x_comb \in Range(variables) |->
        [j \in DOMAIN choice[x_comb] |-> possible_value(x_comb, choice[x_comb][j])]]

\* the domains of an arbitrary caller: each candidate built from one choice
DAny(choice) ==
    [x_comb \in Range(variables) |->
        [j \in DOMAIN choice[x_comb] |-> any_value(x_comb, choice[x_comb][j])]]

\* CSP(X, D) constructed: over the driver's candidates when own, over an
\* arbitrary caller's otherwise; at most MaxCands candidates in all
InitWith(slots, own) ==
    /\ variables \in X
    /\ \E o1 \in Choices(R1, MaxCands, slots) :
       \E o2 \in Choices(R2, MaxCands - Len(o1), slots) :
       \E o3 \in Choices(R3, MaxCands - Len(o1) - Len(o2), slots) :
           LET choice == [x_comb \in group_subjects_dict |->
                             IF x_comb = R1 THEN o1 ELSE IF x_comb = R2 THEN o2 ELSE o3]
           IN  domains = IF own THEN D(choice) ELSE DAny(choice)
    /\ assignment = EmptyAssignment
    /\ stack = <<>>
    /\ pc = "init"
    /\ i = 0
    /\ ret = None
    /\ result = None
    /\ calls = 0
    /\ verdict = TRUE

Init == InitWith(Slots, TRUE)

InitAny == InitWith(AnySlots, FALSE)

\* solve(): i = 0, assignment = {}, call backtrack
Solve ==
    /\ pc = "init"
    /\ assignment' = EmptyAssignment
    /\ i' = 0
    /\ pc' = "call"
    /\ calls' = calls + 1
    /\ UNCHANGED <<variables, domains, stack, ret, result, verdict>>

\* backtrack entered with a complete assignment: count the step, return it
BacktrackComplete ==
    /\ pc = "call"
    /\ is_complete(assignment)
    /\ i' = step(i, TRUE)
    /\ ret' = Some(assignment)
    /\ pc' = "ret"
    /\ UNCHANGED <<variables, domains, assignment, stack, result, calls, verdict>>

\* backtrack entered with an incomplete assignment: count the step, select
\* the variable, and stand before the first candidate
BacktrackSelect ==
    /\ pc = "call"
    /\ ~ is_complete(assignment)
    /\ unassigned(assignment) # <<>>
    /\ i' = step(i, FALSE)
    /\ stack' = Append(stack, Frame(select_unassigned_variable(assignment), 1, assignment))
    /\ pc' = "loop"
    /\ UNCHANGED <<variables, domains, assignment, ret, result, calls, verdict>>

\* backtrack entered with an incomplete assignment and nothing unassigned:
\* min() of an empty list raises ValueError, which nothing catches
BacktrackRaise ==
    /\ pc = "call"
    /\ ~ is_complete(assignment)
    /\ unassigned(assignment) = <<>>
    /\ i' = step(i, FALSE)
    /\ pc' = "error"
    /\ UNCHANGED <<variables, domains, assignment, stack, ret, result, calls, verdict>>

\* one turn of the for loop: test the candidate; bind it and recurse, or go on
BacktrackTry ==
    /\ pc = "loop"
    /\ Top.k <= Len(domains[Top.var])
    /\ LET var == Top.var
           value == candidate(var, Top.k)
           c == is_consistent(var, value, assignment)
       IN  IF c.ok
           THEN /\ assignment' = SetItem(c.assignment, var, value)
                /\ pc' = "call"
                /\ stack' = stack
                /\ calls' = calls + 1
           ELSE /\ assignment' = c.assignment
                /\ pc' = "loop"
                /\ stack' = Append(Pop, Frame(var, Top.k + 1, Top.entry))
                /\ calls' = calls
    /\ UNCHANGED <<variables, domains, i, ret, result, verdict>>

\* the for loop is over: return None
BacktrackExhausted ==
    /\ pc = "loop"
    /\ Top.k > Len(domains[Top.var])
    /\ ret' = None
    /\ stack' = Pop
    /\ pc' = "ret"
    /\ UNCHANGED <<variables, domains, assignment, i, result, calls, verdict>>

\* the recursive call returned a result: pass it up
BacktrackPropagate ==
    /\ pc = "ret"
    /\ stack # <<>>
    /\ ~ ret.none
    /\ stack' = Pop
    /\ UNCHANGED <<variables, domains, assignment, pc, i, ret, result, calls, verdict>>

\* the recursive call returned None: undo the binding, go to the next candidate
BacktrackUndo ==
    /\ pc = "ret"
    /\ stack # <<>>
    /\ ret.none
    /\ assignment' = DelItem(assignment, Top.var)
    /\ stack' = Append(Pop, Frame(Top.var, Top.k + 1, Top.entry))
    /\ pc' = "loop"
    /\ UNCHANGED <<variables, domains, i, ret, result, calls, verdict>>

\* solve() returns: assignment or None
SolveReturn ==
    /\ pc = "ret"
    /\ stack = <<>>
    /\ result' = IF ret.none \/ ret.value = EmptyAssignment THEN None ELSE Some(ret.value)
    /\ pc' = "done"
    /\ UNCHANGED <<variables, domains, assignment, stack, i, ret, calls, verdict>>

Next ==
    \/ Solve
    \/ BacktrackComplete
    \/ BacktrackSelect
    \/ BacktrackRaise
    \/ BacktrackTry
    \/ BacktrackExhausted
    \/ BacktrackPropagate
    \/ BacktrackUndo
    \/ SolveReturn

Spec == Init /\ [][Next]_vars

\* the run is one thread that takes its next step whenever it has one
LiveSpec == Init /\ [][Next]_vars /\ WF_vars(Next)

\* the same solver over candidate lists an arbitrary caller passes
SpecAny == InitAny /\ [][Next]_vars

(* ------------------ the constraint predicates on their own ------------ *)

\* any Lesson value: the fields are not tied to a Requirement or to a catalog
AnyLesson ==
    {Lesson(g, s, t, d, l, a) : g \in {G1, G2}, s \in {"S1", "S2"}, t \in {"T1", "T2"},
                                d \in {"Monday", "Tuesday"}, l \in lesson_num,
                                a \in auditorium}

\* any dict[MustToLearn, Lesson] of at most MaxBindings bindings
AnyAssignment ==
    UNION {[K -> AnyLesson] :
              K \in {K \in SUBSET group_subjects_dict : Cardinality(K) <= MaxBindings}}

\* the three module-level predicates, by name
Predicates == {"teacher", "group", "auditorium"}

Apply(name, a) ==
    CASE name = "teacher"    -> teacher_time_conflict_constraint(a)
      [] name = "group"      -> group_time_conflict_constraint(a)
      [] name = "auditorium" -> auditorium_time_conflict_constraint(a)

InitPure ==
    /\ assignment \in AnyAssignment
    /\ variables = <<>>
    /\ domains = EmptyAssignment
    /\ stack = <<>>
    /\ pc = "init"
    /\ i = 0
    /\ ret = None
    /\ result = None
    /\ calls = 0
    /\ verdict = TRUE

\* a direct call of one predicate on the assignment
Call(name) ==
    /\ pc = "init"
    /\ verdict' = Apply(name, assignment)
    /\ pc' = name
    /\ UNCHANGED <<variables, domains, assignment, stack, i, ret, result, calls>>

CallTeacher == Call("teacher")

CallGroup == Call("group")

CallAuditorium == Call("auditorium")

\* del assignment[x] for some bound x, and the same predicate called again
Recheck ==
    /\ pc \in Predicates
    /\ \E x \in DOMAIN assignment :
           /\ assignment' = DelItem(assignment, x)
           /\ verdict' = Apply(pc, assignment')
    /\ UNCHANGED <<variables, domains, stack, pc, i, ret, result, calls>>

NextPure ==
    \/ CallTeacher
    \/ CallGroup
    \/ CallAuditorium
    \/ Recheck

PureSpec == InitPure /\ [][NextPure]_vars

(* ------------------------- auxiliary notions -------------------------- *)

\* the set of variables of the list
VarSet == Range(variables)

\* the variable list holds no Requirement twice
DistinctVariables == \A j, m \in DOMAIN variables : variables[j] = variables[m] => j = m

\* the three constraint predicates, all true on a
AllConstraints(a) ==
    /\ teacher_time_conflict_constraint(a)
    /\ group_time_conflict_constraint(a)
    /\ auditorium_time_conflict_constraint(a)

\* every choice of one candidate index per variable
IndexChoices ==
    {f \in [VarSet -> 1..MaxCands] : \A x \in VarSet : f[x] <= Len(domains[x])}

\* the assignment an index choice stands for
Chosen(f) == [x \in VarSet |-> domains[x][f[x]]]

\* the index choices that satisfy the three predicates, by enumeration
SolutionChoices == {f \in IndexChoices : AllConstraints(Chosen(f))}

\* solve() has returned, and returned an assignment
Returned == pc = "done" /\ ~ result.none

(* ------------------------------ claims -------------------------------- *)

\* C1: whenever solve() returns a result other than None, the keys of the
\* returned assignment are exactly the variables of the list, each value is a
\* candidate of its variable's domain, and the three constraint predicates are
\* all true on it.
C1_ReturnedAssignmentIsSolution ==
    Returned =>
        /\ DOMAIN result.value = VarSet
        /\ Cardinality(DOMAIN result.value) = Len(variables)
        /\ \A x \in VarSet : result.value[x] \in Range(domains[x])
        /\ teacher_time_conflict_constraint(result.value)
        /\ group_time_conflict_constraint(result.value)
        /\ auditorium_time_conflict_constraint(result.value)

\* a returned assignment of two variables, found after a candidate was rejected
\* or undone (more candidates were there than bindings kept)
C1_Witness ==
    /\ Returned
    /\ Cardinality(DOMAIN result.value) = 2
    /\ \E x \in VarSet : result.value[x] # domains[x][1]

\* C2: when no choice of one candidate per Requirement satisfies the three
\* predicates (by enumeration of all choices), solve() does not raise and
\* returns None as the assignment.
C2_NoSolutionReturnsNone ==
    /\ pc = "error" => SolutionChoices # {}
    /\ pc = "done" => (SolutionChoices = {} => result.none)

\* an unsatisfiable instance of two variables, both with candidates, on which
\* solve() has returned
C2_Witness ==
    /\ pc = "done"
    /\ Len(variables) = 2
    /\ \A x \in VarSet : Len(domains[x]) >= 2
    /\ SolutionChoices = {}
    /\ result.none

\* C3: over a list of pairwise distinct Requirements with finite candidate
\* lists, solve() terminates: the run reaches the return of solve() (with an
\* assignment or with None), and never the raised error.
C3_SolveTerminates ==
    /\ DistinctVariables => <>(pc = "done")
    /\ [](DistinctVariables => pc # "error")

\* a run over two distinct variables that ended after at least one undo
C3_Witness ==
    /\ pc = "done"
    /\ DistinctVariables
    /\ Len(variables) = 2
    /\ i >= 4

\* the students of the groups whose lessons a binds to room at (d, l), summed
\* over the Requirements of S
RECURSIVE Students(_, _, _, _, _)
Students(S, a, room, d, l) ==
    IF S = {}
    THEN 0
    ELSE LET x == CHOOSE x \in S : TRUE
             here == /\ a[x].auditorium = room
                     /\ a[x].day = d
                     /\ a[x].lesson_num = l
         IN  (IF here THEN a[x].group.students ELSE 0) + Students(S \ {x}, a, room, d, l)

\* C4: in every assignment solve() returns, the students bound to a room at one
\* day and period sum to at most the capacity of the room; and a lone
\* Requirement of a group larger than every room offered to it gets None.
C4_CapacityRespected ==
    /\ Returned =>
           \A room \in auditorium, d \in day, l \in lesson_num :
               Students(DOMAIN result.value, result.value, room, d, l) <= room.capacity
    /\ ( /\ pc = "done"
         /\ Len(variables) = 1
         /\ \A x \in VarSet : \A j \in DOMAIN domains[x] :
                domains[x][j].auditorium.capacity < x.group.students )
       => result.none

\* some variable of the list has an empty candidate list
HasEmptyDomain == \E x \in VarSet : domains[x] = <<>>

\* C5: when some Requirement of the list has an empty domain, the run binds
\* nothing (the assignment stays empty and no candidate is ever tested), does
\* not raise, and solve() returns None with a step count of exactly 1.
C5_EmptyDomainShortCircuit ==
    HasEmptyDomain =>
        /\ assignment = EmptyAssignment
        /\ ~ ENABLED BacktrackTry
        /\ pc # "error"
        /\ i <= 1
        /\ pc = "done" => (result.none /\ i = 1)

\* solve() has returned on a list of two variables whose first has candidates
\* and whose second has none
C5_Witness ==
    /\ pc = "done"
    /\ Len(variables) = 2
    /\ DistinctVariables
    /\ Len(domains[variables[1]]) >= 2
    /\ domains[variables[2]] = <<>>
    /\ i = 1

\* the invocation on top of the stack has run out of candidates and is about
\* to return None
ReturningFailure == pc = "loop" /\ Top.k > Len(domains[Top.var])

\* C6: when an invocation of backtrack returns failure, the shared assignment
\* equals (same keys, same values) the assignment that invocation was entered
\* with; and when solve() reports None the shared assignment is empty.
C6_FailureRestoresAssignment ==
    /\ ReturningFailure => assignment = Top.entry
    /\ (pc = "done" /\ result.none) => assignment = EmptyAssignment

\* a nested invocation, entered with one binding, returns failure after it
\* tested a candidate of its own, in a run that already undid a binding
C6_Witness ==
    /\ ReturningFailure
    /\ Len(stack) = 2
    /\ Top.entry # EmptyAssignment
    /\ Top.k >= 2
    /\ stack[1].k >= 2

\* two distinct Requirements that a binds to lessons of one group, day and period
SameGroupSlot(a, x, y) ==
    /\ x # y
    /\ a[x].group = a[y].group
    /\ a[x].day = a[y].day
    /\ a[x].lesson_num = a[y].lesson_num

\* backtrack is being entered, or solve() has returned the assignment
EnteredOrReturned == pc = "call" \/ Returned

\* C7 as stated: whatever the candidate lists, in every assignment backtrack is
\* entered with and in every returned one, no two distinct Requirements are
\* bound to lessons of the same group, day and period.
C7_NoSharedGroupSlot ==
    EnteredOrReturned =>
        \A x, y \in DOMAIN assignment : ~ SameGroupSlot(assignment, x, y)

\* C7 amended: whatever the candidate lists, in every assignment backtrack is
\* entered with and in every returned one, no two distinct Requirements are
\* bound to lessons that differ as values and have the same group, day and
\* period (two Requirements may both hold one and the same lesson value).
C7_NoSharedGroupSlotUnlessEqual ==
    EnteredOrReturned =>
        \A x, y \in DOMAIN assignment :
            SameGroupSlot(assignment, x, y) => assignment[x] = assignment[y]

\* a returned assignment of two Requirements, one of which had a candidate
\* that differs from the lesson bound to the other and shares its group, day
\* and period
C7_Witness ==
    /\ Returned
    /\ Cardinality(DOMAIN result.value) = 2
    /\ \E x, y \in DOMAIN result.value : \E j \in DOMAIN domains[y] :
           /\ x # y
           /\ domains[y][j] # result.value[x]
           /\ domains[y][j].group = result.value[x].group
           /\ domains[y][j].day = result.value[x].day
           /\ domains[y][j].lesson_num = result.value[x].lesson_num

\* the joint-lecture instance: two Requirements of different groups and the
\* same subject, each with exactly one candidate (its own group and subject),
\* the two candidates with the same teacher, day and period
JointLecture ==
    /\ Len(variables) = 2
    /\ variables[1].group # variables[2].group
    /\ variables[1].subject = variables[2].subject
    /\ \A x \in VarSet :
           /\ Len(domains[x]) = 1
           /\ domains[x][1].group = x.group
           /\ domains[x][1].subject = x.subject
    /\ domains[variables[1]][1].teacher = domains[variables[2]][1].teacher
    /\ domains[variables[1]][1].day = domains[variables[2]][1].day
    /\ domains[variables[1]][1].lesson_num = domains[variables[2]][1].lesson_num

\* the two candidates of the joint-lecture instance use one room
JointSameRoom ==
    domains[variables[1]][1].auditorium = domains[variables[2]][1].auditorium

\* C8: on the joint-lecture instance solve() does not raise; it returns both
\* Requirements bound to their candidates when the two candidates use the same
\* room, and None when they use different rooms.
C8_JointLecture ==
    JointLecture =>
        /\ pc # "error"
        /\ (pc = "done" /\ JointSameRoom) =>
               /\ ~ result.none
               /\ result.value = [x \in VarSet |-> domains[x][1]]
        /\ (pc = "done" /\ ~ JointSameRoom) => result.none

\* solve() has returned on a joint-lecture instance with one room
C8_Witness == pc = "done" /\ JointLecture /\ JointSameRoom /\ ~ result.none

\* the order in which select_unassigned_variable visits the variables: x comes
\* before y when its domain is shorter, or as long and x is earlier in the list
FirstIndex(x) == CHOOSE j \in DOMAIN variables :
                     variables[j] = x /\ \A m \in 1..(j - 1) : variables[m] # x

VisitedBefore(x, y) ==
    \/ Len(domains[x]) < Len(domains[y])
    \/ Len(domains[x]) = Len(domains[y]) /\ FirstIndex(x) < FirstIndex(y)

\* f is lexicographically smaller than g in candidate index, variables read in
\* visiting order
LexLess(f, g) ==
    \E x \in VarSet :
        /\ f[x] < g[x]
        /\ \A y \in VarSet : VisitedBefore(y, x) => f[y] = g[y]

\* the lexicographically smallest solution
LexMin == CHOOSE f \in SolutionChoices : \A g \in SolutionChoices \ {f} : LexLess(f, g)

\* C10: when several solutions exist, solve() returns the one that is
\* lexicographically smallest in candidate index, the variables read in the
\* order of ascending domain size (ties in list order) and the candidates of
\* each variable in domain order.
C10_FirstSolutionIsLexMin ==
    (pc = "done" /\ Cardinality(SolutionChoices) >= 2) =>
        /\ ~ result.none
        /\ result.value = Chosen(LexMin)

\* solve() has returned on an instance of two variables with several
\* solutions, none of which takes the first candidate of the first variable
\* visited
C10_Witness ==
    /\ pc = "done"
    /\ Len(variables) = 2
    /\ Cardinality(SolutionChoices) >= 2
    /\ \E x \in VarSet :
           /\ \A y \in VarSet \ {x} : VisitedBefore(x, y)
           /\ LexMin[x] >= 2

\* ---------------------------------------------------------------------
\* the first position of x in the list u
FirstIndexIn(u, x) == CHOOSE j \in DOMAIN u : u[j] = x /\ \A m \in 1..(j - 1) : u[m] # x

\* an invocation has been entered and at least one Requirement is unbound
Selecting == pc = "call" /\ unassigned(assignment) # <<>>

\* C11: whenever backtrack is about to select (an invocation has been
\* entered and at least one Requirement is unbound), the Requirement that
\* select_unassigned_variable returns is unbound, no unbound Requirement has
\* a shorter candidate list, and among the unbound Requirements of that
\* least length it is the one that comes first in the variable list.
C11_SelectsFirstSmallestUnbound ==
    Selecting =>
        LET u == unassigned(assignment)
            x == select_unassigned_variable(assignment)
        IN  /\ x \in Range(variables)
            /\ x \notin DOMAIN assignment
            /\ \A y \in Range(u) : Len(domains[x]) <= Len(domains[y])
            /\ \A y \in Range(u) :
                   Len(domains[y]) = Len(domains[x])
                       => FirstIndexIn(variables, x) <= FirstIndexIn(variables, y)

\* a selection among several unbound Requirements where the first of the
\* list is not the one of least candidate-list length
C11_Witness ==
    /\ Selecting
    /\ LET u == unassigned(assignment)
       IN  /\ Len(u) >= 2
           /\ select_unassigned_variable(assignment) # u[1]

\* ---------------------------------------------------------------------
\* two lessons, unequal as values, of one teacher, day and period that
\* differ in subject, or have the same group, or differ in room
TeacherClash(l, m) ==
    /\ l # m
    /\ l.teacher = m.teacher
    /\ l.day = m.day
    /\ l.lesson_num = m.lesson_num
    /\ \/ l.subject # m.subject
       \/ l.group = m.group
       \/ l.auditorium # m.auditorium

\* C12: teacher_time_conflict_constraint returns false exactly when the
\* assignment binds two lessons, unequal as values, that share teacher, day
\* and period and that differ in subject, or have the same group, or differ
\* in room.
C12_TeacherConflictExactly ==
    pc = "teacher" =>
        (verdict = FALSE <=>
            \E x, y \in DOMAIN assignment : TeacherClash(assignment[x], assignment[y]))

\* the predicate rejected two lessons of one teacher and slot that differ in
\* nothing but group and room
C12_Witness ==
    /\ pc = "teacher"
    /\ verdict = FALSE
    /\ \E x, y \in DOMAIN assignment :
           /\ TeacherClash(assignment[x], assignment[y])
           /\ assignment[x].subject = assignment[y].subject
           /\ assignment[x].group # assignment[y].group
           /\ assignment[x].auditorium # assignment[y].auditorium

\* ---------------------------------------------------------------------
\* two lessons, unequal as values, of one day, period and room that differ
\* in subject or in teacher
RoomClash(l, m) ==
    /\ l # m
    /\ l.day = m.day
    /\ l.lesson_num = m.lesson_num
    /\ l.auditorium = m.auditorium
    /\ \/ l.subject # m.subject
       \/ l.teacher # m.teacher

\* C13: auditorium_time_conflict_constraint returns false exactly when the
\* assignment binds two lessons, unequal as values, that share day, period and
\* room while differing in subject or in teacher; two lessons of the same
\* subject and teacher in one room and slot are accepted.
C13_RoomConflictExactly ==
    pc = "auditorium" =>
        (verdict = FALSE <=>
            \E x, y \in DOMAIN assignment : RoomClash(assignment[x], assignment[y]))

\* the predicate rejected two lessons of one subject, room and slot given by
\* different teachers
C13_Witness ==
    /\ pc = "auditorium"
    /\ verdict = FALSE
    /\ \E x, y \in DOMAIN assignment :
           /\ RoomClash(assignment[x], assignment[y])
           /\ assignment[x].subject = assignment[y].subject
           /\ assignment[x].teacher # assignment[y].teacher

\* ---------------------------------------------------------------------
\* a predicate called on at most one binding returned true
TrueOnAtMostOne == pc \in Predicates /\ Cardinality(DOMAIN assignment) <= 1 => verdict

\* a predicate that returned true returns true after a binding is removed
StaysTrue == (pc \in Predicates /\ verdict /\ assignment' # assignment) => verdict'

C14_StepsCountInvocations == pc = "done" => i = calls

\* solve() has returned an assignment after a branch failed and after an
\* invocation that found the assignment complete
C14_Witness ==
    /\ pc = "done"
    /\ ~ result.none
    /\ calls > Len(variables) + 1

\* ---------------------------------------------------------------------
\* the completeness statement on the instance of one solve() run that has
\* returned: some complete assignment passes the three predicates only if
\* the run returned a complete assignment
CompleteOnReturn ==
    pc = "done" /\ SolutionChoices # {} => Returned /\ DOMAIN result.value = VarSet

\* completeness on the instances that hold at least one Requirement
CompleteOnNonEmpty == variables # <<>> => CompleteOnReturn

\* C15: for every instance, the one with no Requirement included, if some
\* complete assignment (one candidate per Requirement) passes the three
\* predicates, solve() returns a complete assignment and not None.
C15_Completeness == CompleteOnReturn

\* ---------------------------------------------------------------------
\* C16: when the variable list holds the same Requirement twice, solve()
\* does not end in an error raised while selecting the next variable (it
\* ends with an assignment or None).
C16_NoErrorOnRepeatedVariable == ~ DistinctVariables => pc # "error"

\* ---------------------------------------------------------------------
\* every bound value is one of the candidates of its Requirement
BoundFromDomains == \A x \in DOMAIN assignment : assignment[x] \in Range(domains[x])

\* C17: at every entry to backtrack the shared partial assignment passes
\* the three predicates and binds each Requirement to an element of that
\* Requirement's candidate list.
C17_ConsistentPrefix == pc = "call" => AllConstraints(assignment) /\ BoundFromDomains

\* an invocation entered with two bindings, the last of them made after an
\* earlier candidate of the same Requirement had been passed over
C17_Witness ==
    /\ pc = "call"
    /\ Cardinality(DOMAIN assignment) = 2
    /\ stack # <<>>
    /\ Top.k > 1

\* ---------------------------------------------------------------------
\* nested invocations of backtrack that have been entered and have not returned
Depth == Len(stack) + (IF pc = "call" THEN 1 ELSE 0)

\* C19: over N distinct Requirements the nested active invocations of
\* backtrack never exceed N + 1, and the invocation at depth d (the call
\* from solve() being depth 1) is entered with exactly d - 1 bindings.
C19_DepthInvariant ==
    DistinctVariables =>
        /\ Depth <= Len(variables) + 1
        /\ pc = "call" => Cardinality(DOMAIN assignment) = Depth - 1
        /\ \A d \in DOMAIN stack : Cardinality(DOMAIN stack[d].entry) = d - 1

\* the deepest invocation of a run over two distinct Requirements, entered
\* again after a branch below the first Requirement had failed
C19_Witness ==
    /\ DistinctVariables
    /\ Len(variables) = 2
    /\ pc = "call"
    /\ Depth = 3
    /\ stack[1].k > 1

====
